---- MODULE Spec2Model ----
(***************************************************************************)
(* Model of src/filter.c (Bear): construction of the output filter from a  *)
(* configuration, classification of one invocation after another, and      *)
(* destruction of the filter.  Strings are sequences of one-character      *)
(* strings.  Regular expressions are the subset of POSIX extended syntax   *)
(* made of a literal body with an optional leading ^ and trailing $; an    *)
(* unbalanced ( does not compile.                                          *)
(***************************************************************************)
EXTENDS Integers, Sequences, FiniteSets, TLC

\* ------------------------------------------------------------------ bounds
MaxPatterns == 2      \* longest pattern array of a configuration member
MaxArgs     == 3      \* longest argument vector of an invocation

\* ------------------------------------------------------------- input pools
PatAnchG  == <<"^", "g">>
PatBad    == <<"(">>
PatEndC   == <<"c", "$">>
PatE      == <<"E">>
PatOrder  == <<PatAnchG, PatBad, PatEndC, PatE>>

ArgPool   == {<<"g">>, <<"c">>, <<"/", "c">>, <<"g", "c">>, <<"E">>}
CwdPool   == {<<"/", "x">>, <<"/", "y">>}

SeqUpTo(S, n) == UNION {[1..k -> S] : k \in 0..n}

\* the patterns of PatOrder at the positions S, in their order
RECURSIVE PickPatterns(_)
PickPatterns(S) ==
    IF S = {} THEN <<>>
    ELSE LET m == CHOOSE i \in S : \A j \in S : i <= j
         IN <<PatOrder[m]>> \o PickPatterns(S \ {m})

\* pattern arrays: the subsequences of PatOrder of at most n patterns
PatLists(n) ==
    {PickPatterns(S) : S \in {T \in SUBSET (1..Len(PatOrder)) : Cardinality(T) <= n}}

\* ---------------------------------------------------------- configuration
MemberNames == <<"compilers", "source_files", "cancel_parameters">>
MemberSet   == {"compilers", "source_files", "cancel_parameters"}

\* what config_setting_get_member finds under a name: nothing, a setting
\* that is no array, an array of integers, or an array of strings
MemberVals ==
    {[type |-> "missing", elems |-> <<>>],
     [type |-> "scalar",  elems |-> <<>>],
     [type |-> "ints",    elems |-> <<<<"1">>>>]}
    \cup {[type |-> "strings", elems |-> e] : e \in PatLists(MaxPatterns)}

NoGroupConfig ==
    [group |-> FALSE,
     members |-> [n \in MemberSet |-> [type |-> "missing", elems |-> <<>>]]]

Configs ==
    {NoGroupConfig}
    \cup {[group |-> TRUE, members |-> ms] : ms \in [MemberSet -> MemberVals]}

Invocations ==
    {[hasCmd |-> FALSE, cmd |-> <<>>, cwd |-> d] : d \in CwdPool}
    \cup {[hasCmd |-> TRUE, cmd |-> c, cwd |-> d] :
             c \in SeqUpTo(ArgPool, MaxArgs), d \in CwdPool}

NoMsg == [hasCmd |-> FALSE, cmd |-> <<>>, cwd |-> <<>>]

VARIABLES
    config,      \* the configuration document handed to bear_filter_create
    pc,          \* position of the single thread of control
    filterMem,   \* the malloc'ed bear_output_filter_t: "none", "live", "freed"
    flt,         \* per member: the fields length and regexs of its regex_list_t
    arr,         \* per member: malloc state and free count of the regexs array
    regs,        \* per member: the compiled regex_t's, with their regfree count
    km,          \* index into MemberNames of the list being compiled / released
    idx,         \* loop index of compile
    diag,        \* diagnostic written to stderr, "" when none
    fault,       \* undefined behaviour that has happened, "" when none
    msg,         \* the bear_message_t being classified
    it,          \* scan position in msg.cmd (1-based)
    result,      \* local result of bear_filter_source_file: 0 or index in strs
    strs,        \* strings allocated by fix_path during the current call
    lastStep     \* which branches the last loop iteration of the scan took

vars == <<config, pc, filterMem, flt, arr, regs, km, idx, diag, fault,
          msg, it, result, strs, lastStep>>

createVars == <<filterMem, flt, arr, regs, km, idx>>
scanVars   == <<msg, it, result, strs, lastStep>>

NoStep == [arg |-> 0, candidate |-> FALSE, cancelTested |-> FALSE,
           cancelled |-> FALSE]

\* ------------------------------------------------------- regular expressions
\* regcomp(.., REG_EXTENDED) fails on an unbalanced parenthesis
RegcompFails(p) ==
    \E i \in 1..Len(p) : p[i] = "(" /\ ~ \E j \in (i+1)..Len(p) : p[j] = ")"

AnchoredStart(p) == Len(p) > 0 /\ p[1] = "^"
AnchoredEnd(p)   == Len(p) > 0 /\ p[Len(p)] = "$"
Body(p) ==
    SubSeq(p, IF AnchoredStart(p) THEN 2 ELSE 1,
              IF AnchoredEnd(p) THEN Len(p) - 1 ELSE Len(p))

\* regexec(ot, input, 0, 0, 0) = 0: the pattern matches somewhere in input
Regexec(p, input) ==
    LET b == Body(p) IN
    \E s \in 1..(Len(input) - Len(b) + 1) :
        /\ SubSeq(input, s, s + Len(b) - 1) = b
        /\ AnchoredStart(p) => s = 1
        /\ AnchoredEnd(p) => s + Len(b) - 1 = Len(input)

\* match(): any of the first `length` compiled patterns matches
matchSkipLast(prepared, input) ==
    \E i \in 1..(flt[prepared].length - 1) :
        Regexec(regs[prepared][i].pat, input)

match(prepared, input) ==
    \E i \in 1..flt[prepared].length : Regexec(regs[prepared][i].pat, input)

\* ------------------------------------------------------------- fix_path
fix_path_nosep(file, cwd) ==
    IF Len(file) > 0 /\ file[1] = "/" THEN file ELSE cwd \o file

fix_path(file, cwd) ==
    IF Len(file) > 0 /\ file[1] = "/" THEN file ELSE cwd \o <<"/">> \o file

\* ------------------------------------------------------------------- Init
UninitList == [length |-> 0, regexs |-> "uninit"]

Init ==
    /\ config \in Configs
    /\ pc = "start"
    /\ filterMem = "none"
    /\ flt = [n \in MemberSet |-> UninitList]
    /\ arr = [n \in MemberSet |-> [state |-> "none", frees |-> 0]]
    /\ regs = [n \in MemberSet |-> <<>>]
    /\ km = 1
    /\ idx = 0
    /\ diag = ""
    /\ fault = ""
    /\ msg = NoMsg
    /\ it = 0
    /\ result = 0
    /\ strs = <<>>
    /\ lastStep = NoStep

\* ------------------------------------------------------ bear_filter_create
\* malloc of the filter structure; its fields are not initialised
CreateMalloc ==
    /\ pc = "start"
    /\ \E ok \in BOOLEAN :
         IF ok
         THEN /\ filterMem' = "live"
              /\ pc' = "lookup"
              /\ diag' = diag
         ELSE /\ filterMem' = filterMem
              /\ pc' = "exit"
              /\ diag' = "bear: malloc"
    /\ UNCHANGED <<config, flt, arr, regs, km, idx, fault>>
    /\ UNCHANGED scanVars

\* config_lookup(config, "filter")
LookupGroup ==
    /\ pc = "lookup"
    /\ IF config.group
       THEN /\ pc' = "get_setting"
            /\ km' = 1
            /\ diag' = diag
       ELSE /\ pc' = "exit"
            /\ km' = km
            /\ diag' = "bear: found no filter group in config file."
    /\ UNCHANGED <<config, filterMem, flt, arr, regs, idx, fault>>
    /\ UNCHANGED scanVars

\* get_setting(group, name): the member must exist and be an array
get_setting ==
    /\ pc = "get_setting"
    /\ LET s == config.members[MemberNames[km]] IN
       IF s.type = "missing"
       THEN /\ pc' = "exit"
            /\ diag' = "bear: could not find values"
       ELSE IF s.type \notin {"ints", "strings"}
       THEN /\ pc' = "exit"
            /\ diag' = "bear: value shall be array of strings"
       ELSE /\ pc' = "compile"
            /\ diag' = diag
    /\ UNCHANGED <<config, filterMem, flt, arr, regs, km, idx, fault>>
    /\ UNCHANGED scanVars

\* where control goes when compile() of member number k returns
AfterCompile(k) == IF k < Len(MemberNames) THEN "get_setting" ELSE "ready"

\* compile(), up to the loop: length is stored; an empty array returns with
\* regexs never assigned; otherwise regexs is the unchecked result of malloc
compile ==
    /\ pc = "compile"
    /\ LET n == MemberNames[km]
           len == Len(config.members[n].elems) IN
       IF len = 0
       THEN /\ flt' = [flt EXCEPT ![n].length = 0]
            /\ arr' = arr
            /\ pc' = AfterCompile(km)
            /\ km' = IF km < Len(MemberNames) THEN km + 1 ELSE km
            /\ idx' = idx
       ELSE \E ok \in BOOLEAN :
            /\ flt' = [flt EXCEPT ![n] = [length |-> len,
                                         regexs |-> IF ok THEN "array" ELSE "null"]]
            /\ arr' = IF ok THEN [arr EXCEPT ![n].state = "live"] ELSE arr
            /\ pc' = "regcomp"
            /\ km' = km
            /\ idx' = 0
    /\ UNCHANGED <<config, filterMem, regs, diag, fault>>
    /\ UNCHANGED scanVars

\* one iteration of the loop of compile(): regcomp of element idx
regcomp ==
    /\ pc = "regcomp"
    /\ LET n == MemberNames[km]
           s == config.members[n] IN
       IF flt[n].regexs = "null"
       THEN \* regcomp writes through the null pointer malloc returned
            /\ fault' = "null regexs dereferenced"
            /\ pc' \in {"segv", "corrupt"}
            /\ UNCHANGED <<regs, km, idx, diag>>
       ELSE IF s.type # "strings"
       THEN \* config_setting_get_string_elem returned NULL, regcomp reads it
            /\ fault' = "null pattern passed to regcomp"
            /\ pc' \in {"segv", "corrupt"}
            /\ UNCHANGED <<regs, km, idx, diag>>
       ELSE IF RegcompFails(s.elems[idx + 1])
       THEN /\ pc' = "exit"
            /\ diag' = "bear: regcomp"
            /\ UNCHANGED <<regs, km, idx, fault>>
       ELSE /\ regs' = [regs EXCEPT ![n] =
                           Append(@, [pat |-> s.elems[idx + 1], frees |-> 0])]
            /\ idx' = idx + 1
            /\ IF idx + 1 < flt[n].length
               THEN /\ pc' = "regcomp"
                    /\ km' = km
               ELSE /\ pc' = AfterCompile(km)
                    /\ km' = IF km < Len(MemberNames) THEN km + 1 ELSE km
            /\ UNCHANGED <<diag, fault>>
    /\ UNCHANGED <<config, filterMem, flt, arr>>
    /\ UNCHANGED scanVars

\* ------------------------------------------------- bear_filter_source_file
\* the guard of the scan: a command with a first argument that matches the
\* compilers list
IsCompilerCallAnyCmd(m) == m.hasCmd /\ Len(m.cmd) > 0

IsCompilerCall(m) ==
    m.hasCmd /\ Len(m.cmd) > 0 /\ match("compilers", m.cmd[1])

\* entry of bear_filter_source_file: result = 0, then the compiler test
bear_filter_source_file ==
    /\ pc = "ready"
    /\ \E m \in Invocations :
         /\ msg' = m
         /\ IF IsCompilerCall(m)
            THEN /\ pc' = "scan"
                 /\ it' = 1
            ELSE /\ pc' = "returned"
                 /\ it' = 0
    /\ result' = 0
    /\ strs' = <<>>
    /\ lastStep' = NoStep
    /\ UNCHANGED <<config, diag, fault>>
    /\ UNCHANGED createVars

\* first branch of the loop body: (0 == result) && match(source_files, *it)
CandidateBranchAlways(res, arg) == match("source_files", arg)

CandidateBranch(res, arg) == res = 0 /\ match("source_files", arg)

\* the else of that branch is reached, so cancel_parameters is tested
CancelTestedAlways(res, arg) == TRUE

CancelTested(res, arg) == ~ CandidateBranch(res, arg)

CancelBranch(res, arg) ==
    CancelTested(res, arg) /\ match("cancel_parameters", arg)

\* the cancel branch: if (result) { free(result); result = 0; } break;
FreeOnCancelKeep(ss, res) == ss

FreeOnCancel(ss, res) ==
    IF res # 0 THEN [ss EXCEPT ![res].frees = @ + 1] ELSE ss

ResultOnCancelKeep(res) == res

ResultOnCancel(res) == 0

\* one iteration of the for loop over e->cmd
ScanStep ==
    /\ pc = "scan"
    /\ it <= Len(msg.cmd)
    /\ LET arg  == msg.cmd[it]
           cand == CandidateBranch(result, arg)
           canc == CancelBranch(result, arg)
           ss1  == IF cand
                   THEN Append(strs, [val |-> fix_path(arg, msg.cwd), frees |-> 0])
                   ELSE strs
           r1   == IF cand THEN Len(ss1) ELSE result
       IN \E ok \in BOOLEAN :
          IF cand /\ ~ ok
          THEN \* strdup or asprintf failed inside fix_path
               /\ pc' = "exit"
               /\ diag' = IF Len(arg) > 0 /\ arg[1] = "/"
                          THEN "bear: strdup" ELSE "bear: asprintf"
               /\ UNCHANGED <<it, result, strs, lastStep>>
          ELSE /\ diag' = diag
               /\ lastStep' = [arg |-> it, candidate |-> cand,
                               cancelTested |-> CancelTested(result, arg),
                               cancelled |-> canc]
               /\ IF canc
                  THEN /\ strs' = FreeOnCancel(ss1, r1)
                       /\ result' = ResultOnCancel(r1)
                       /\ pc' = "returned"
                       /\ it' = it
                  ELSE /\ strs' = ss1
                       /\ result' = r1
                       /\ pc' = "scan"
                       /\ it' = it + 1
    /\ UNCHANGED <<config, msg, fault>>
    /\ UNCHANGED createVars

\* the loop condition *it fails: return result
ScanEnd ==
    /\ pc = "scan"
    /\ it > Len(msg.cmd)
    /\ pc' = "returned"
    /\ UNCHANGED <<config, diag, fault, msg, it, result, strs, lastStep>>
    /\ UNCHANGED createVars

\* the caller takes the verdict, releases the string it now owns, and is
\* ready for the next invocation
CallerRelease ==
    /\ pc = "returned"
    /\ pc' = "ready"
    /\ msg' = NoMsg
    /\ it' = 0
    /\ result' = 0
    /\ strs' = <<>>
    /\ lastStep' = NoStep
    /\ UNCHANGED <<config, diag, fault>>
    /\ UNCHANGED createVars

\* ------------------------------------------------------ bear_filter_delete
bear_filter_delete ==
    /\ pc = "ready"
    /\ pc' = "release"
    /\ km' = 1
    /\ UNCHANGED <<config, filterMem, flt, arr, regs, idx, diag, fault>>
    /\ UNCHANGED scanVars

\* what an uninitialised pointer field may hold: null, a pointer to no
\* allocation, or the address of one of the arrays allocated so far
UninitValues == {"null", "wild"} \cup {n \in MemberSet : arr[n].state # "none"}

FreeArray(a, n) == [a EXCEPT ![n] = [state |-> "freed", frees |-> @.frees + 1]]

\* release(): regfree of the first `length` patterns, then free(regexs)
release ==
    /\ pc = "release"
    /\ LET n == MemberNames[km]
           next == IF km < Len(MemberNames) THEN "release" ELSE "free_filter"
       IN
       /\ regs' = [regs EXCEPT ![n] =
                     [i \in 1..Len(@) |->
                        IF i <= flt[n].length
                        THEN [@[i] EXCEPT !.frees = @ + 1] ELSE @[i]]]
       /\ IF flt[n].regexs = "array"
          THEN /\ arr' = FreeArray(arr, n)
               /\ fault' = fault
               /\ pc' = next
          ELSE \* length is 0 and regexs was never assigned
               \E v \in UninitValues :
               /\ fault' = "uninitialised regexs passed to free"
               /\ IF v = "null"
                  THEN /\ arr' = arr
                       /\ pc' = next
                  ELSE IF v = "wild"
                  THEN /\ arr' = arr
                       /\ pc' \in {"abort", "corrupt"}
                  ELSE /\ arr' = FreeArray(arr, v)
                       /\ pc' = next
       /\ km' = IF km < Len(MemberNames) THEN km + 1 ELSE km
    /\ UNCHANGED <<config, filterMem, flt, idx, diag>>
    /\ UNCHANGED scanVars

\* free((void *)filter)
free_filter ==
    /\ pc = "free_filter"
    /\ filterMem' = "freed"
    /\ pc' = "deleted"
    /\ UNCHANGED <<config, flt, arr, regs, km, idx, diag, fault>>
    /\ UNCHANGED scanVars

Next ==
    \/ CreateMalloc
    \/ LookupGroup
    \/ get_setting
    \/ compile
    \/ regcomp
    \/ bear_filter_source_file
    \/ ScanStep
    \/ ScanEnd
    \/ CallerRelease
    \/ bear_filter_delete
    \/ release
    \/ free_filter

Spec == Init /\ [][Next]_vars

\* =================================================================== claims
\* The predicates below speak about the configuration text and the
\* invocation, not about the filter's compiled state.

\* some pattern of the configured list `name` matches s
Matches(name, s) ==
    \E i \in 1..Len(config.members[name].elems) :
        Regexec(config.members[name].elems[i], s)

SrcIdx    == {i \in 1..Len(msg.cmd) : Matches("source_files", msg.cmd[i])}
CancelIdx == {i \in 1..Len(msg.cmd) : Matches("cancel_parameters", msg.cmd[i])}
Least(S)  == CHOOSE i \in S : \A j \in S : i <= j

FirstArgIsCompiler ==
    msg.hasCmd /\ Len(msg.cmd) > 0 /\ Matches("compilers", msg.cmd[1])

\* the cwd rule, stated on the characters of the path
IsResolutionOf(path, file, cwd) ==
    IF Len(file) > 0 /\ file[1] = "/"
    THEN path = file
    ELSE /\ Len(path) = Len(cwd) + 1 + Len(file)
         /\ SubSeq(path, 1, Len(cwd)) = cwd
         /\ path[Len(cwd) + 1] = "/"
         /\ SubSeq(path, Len(cwd) + 2, Len(path)) = file

ReturnsPath == pc = "returned" /\ result # 0
ReturnsNone == pc = "returned" /\ result = 0

\* C1 as stated: whenever some argument of a compiler call matches
\* cancel_parameters, the verdict is none.
C1_CancelAnywhere ==
    (pc = "returned" /\ FirstArgIsCompiler /\ CancelIdx # {}) => result = 0

\* C1 amended: whenever an argument of a compiler call other than the
\* lowest-indexed source_files match matches cancel_parameters, the verdict
\* is none, also when a candidate had been found before.
C1_CancelVoids ==
    (/\ pc = "returned"
     /\ FirstArgIsCompiler
     /\ \E i \in CancelIdx : SrcIdx = {} \/ i # Least(SrcIdx))
    => result = 0

C1_Witness ==
    /\ pc = "returned"
    /\ FirstArgIsCompiler
    /\ SrcIdx # {}
    /\ \E i \in CancelIdx : i > Least(SrcIdx)
    /\ lastStep.cancelled
    /\ result = 0

\* C2 as stated: a compiler call with exactly one source_files match at an
\* index >= 1 (argv[0] is index 0) and no cancel_parameters match returns
\* that argument resolved by the cwd rule.
C2_OneLaterSource ==
    (/\ pc = "returned"
     /\ FirstArgIsCompiler
     /\ CancelIdx = {}
     /\ Cardinality(SrcIdx \ {1}) = 1)
    => /\ result # 0
       /\ IsResolutionOf(strs[result].val,
                         msg.cmd[Least(SrcIdx \ {1})], msg.cwd)

\* C2 amended: the same, provided argv[0] itself does not match
\* source_files.
C2_OnlySource ==
    (/\ pc = "returned"
     /\ FirstArgIsCompiler
     /\ CancelIdx = {}
     /\ 1 \notin SrcIdx
     /\ Cardinality(SrcIdx) = 1)
    => /\ result # 0
       /\ strs[result].frees = 0
       /\ IsResolutionOf(strs[result].val, msg.cmd[Least(SrcIdx)], msg.cwd)

C2_Witness ==
    /\ ReturnsPath
    /\ FirstArgIsCompiler
    /\ CancelIdx = {}
    /\ SrcIdx = {3}
    /\ Len(config.members["cancel_parameters"].elems) > 0

\* C3: an invocation without arguments, or whose first argument matches no
\* compilers pattern, yields none and allocates nothing, whatever the other
\* two lists and the other arguments are.
C3_NotCompilerNone ==
    (pc = "returned" /\ ~ FirstArgIsCompiler) => (result = 0 /\ strs = <<>>)

C3_Witness ==
    /\ ReturnsNone
    /\ msg.hasCmd
    /\ Len(msg.cmd) >= 2
    /\ Len(config.members["compilers"].elems) > 0
    /\ ~ Matches("compilers", msg.cmd[1])
    /\ Matches("source_files", msg.cmd[2])

\* C4: from the moment a candidate exists until the return, the candidate is
\* the resolution of the lowest-indexed argument matching source_files; a
\* later match never replaces it.
C4_FirstSourceWins ==
    (pc \in {"scan", "returned"} /\ result # 0)
    => /\ SrcIdx # {}
       /\ IsResolutionOf(strs[result].val, msg.cmd[Least(SrcIdx)], msg.cwd)

C4_Witness ==
    /\ ReturnsPath
    /\ Cardinality(SrcIdx) >= 2
    /\ msg.cmd[Least(SrcIdx)] # msg.cmd[Len(msg.cmd)]
    /\ Len(msg.cmd) \in SrcIdx

\* C5: the string fix_path produced in the last scan step is the file
\* unchanged when it begins with /, and otherwise cwd, then /, then file.
C5_FixPath ==
    (pc \in {"scan", "returned"} /\ lastStep.candidate)
    => /\ Len(strs) >= 1
       /\ IsResolutionOf(strs[Len(strs)].val, msg.cmd[lastStep.arg], msg.cwd)

C5_Witness ==
    /\ pc = "scan"
    /\ lastStep.candidate
    /\ msg.cmd[lastStep.arg] = <<"c">>
    /\ msg.cwd = <<"/", "x">>
    /\ strs[result].val = <<"/", "x", "/", "c">>

\* C6 as stated (allocation failures aside): construction gets past
\* bear_filter_create only for a configuration with the filter group and
\* three arrays of strings that all compile; for every other configuration
\* the process ends in exit with a diagnostic.
ConfigValid ==
    /\ config.group
    /\ \A n \in MemberSet :
         /\ config.members[n].type = "strings"
         /\ \A i \in 1..Len(config.members[n].elems) :
              ~ RegcompFails(config.members[n].elems[i])

Constructing == pc \in {"start", "lookup", "get_setting", "compile", "regcomp"}

C6_InvalidConfigFatal ==
    (~ ConfigValid /\ ~ Constructing /\ fault # "null regexs dereferenced")
    => (pc = "exit" /\ diag # "")

\* C7 as stated: after bear_filter_delete every array that was allocated
\* and every compiled pattern has been freed exactly once, and no pointer
\* that construction left unassigned has been read or freed.
C7_DeleteExact ==
    /\ fault # "uninitialised regexs passed to free"
    /\ pc = "deleted"
       => \A n \in MemberSet :
            /\ \/ arr[n] = [state |-> "none", frees |-> 0]
               \/ arr[n] = [state |-> "freed", frees |-> 1]
            /\ \A i \in 1..Len(regs[n]) : regs[n][i].frees = 1

\* C8: in a scan step whose argument matches source_files and
\* cancel_parameters while no candidate is set, the argument becomes the
\* candidate and the scan goes on to the next argument; cancel_parameters is
\* tested in a step exactly when the candidate branch did not fire.
C8_BranchesExclusive ==
    [][(pc = "scan" /\ it <= Len(msg.cmd) /\ pc' # "exit")
       => LET arg == msg.cmd[it]
              first == result = 0 /\ Matches("source_files", arg)
          IN /\ (first /\ Matches("cancel_parameters", arg))
                  => /\ pc' = "scan"
                     /\ it' = it + 1
                     /\ result' # 0
                     /\ strs'[result'].frees = 0
                     /\ IsResolutionOf(strs'[result'].val, arg, msg.cwd)
             /\ lastStep'.candidate = first
             /\ lastStep'.cancelTested = ~ first
             /\ lastStep'.cancelled => lastStep'.cancelTested]_vars

C8_Witness ==
    /\ pc = "scan"
    /\ lastStep.candidate
    /\ ~ lastStep.cancelTested
    /\ Matches("cancel_parameters", msg.cmd[lastStep.arg])
    /\ result # 0

\* C9 as stated, for configurations that are valid: no pointer that a failed
\* allocation returned is ever dereferenced, and an allocation failure ends
\* the process with its diagnostic.
AllocDiags == {"bear: malloc", "bear: strdup", "bear: asprintf"}

C9_AllocFailureFatal ==
    /\ ConfigValid => fault # "null regexs dereferenced"
    /\ diag \in AllocDiags => pc = "exit"

\* C10: during and at the end of a call at most one string has been
\* allocated; a string is the current result exactly when it has not been
\* freed, no string is freed twice, and a cancelled scan returns none.
C10_StringOwnership ==
    (pc \in {"scan", "returned"})
    => /\ Len(strs) <= 1
       /\ result \in 0..Len(strs)
       /\ \A i \in 1..Len(strs) :
            /\ strs[i].frees <= 1
            /\ (i = result) <=> (strs[i].frees = 0)
       /\ lastStep.cancelled => result = 0

C10_Witness ==
    /\ pc = "returned"
    /\ lastStep.cancelled
    /\ Len(strs) = 1
    /\ strs[1].frees = 1
    /\ result = 0
====
